---- MODULE Spec2Model ----
(***************************************************************************)
(* AI Document Sorter: the ingestion-to-placement pipeline.                *)
(*                                                                         *)
(*   main()            src/src/main.py     verify, build, monitor.run()    *)
(*   DirectoryMonitor  src/src/monitor.py  catch-up scan, observer, stop   *)
(*   DocumentProcessor src/src/main.py     validate, extract, classify,    *)
(*                                         move                            *)
(*   FileSystemManager src/src/file_manager.py  sanitize, resolve, move    *)
(*                                                                         *)
(* Strings are sequences of one-character strings, so that sanitization,   *)
(* suffixes and numeric suffixes are computed character by character.      *)
(* Two threads run the pipeline: "main" (the catch-up scan) and "obs"      *)
(* (watchdog's single dispatch thread, which calls on_created for one      *)
(* queued event at a time).  The environment drops files into the inbox,   *)
(* removes them, and sends the user interrupt.                             *)
(***************************************************************************)
EXTENDS Integers, Sequences, FiniteSets, TLC

\* ------------------------------------------------------------------ bounds

\* Files and directories present in the inbox when the process starts.
MaxInit == 2
\* Entries the user creates in the inbox while the process runs.
MaxArrivals == 1
\* Entries the inbox sees in all before the user stops at MaxArrivals.
MaxEntries == 2
\* Inbox files the user takes away while the process runs.
MaxRemovals == 1
\* User interrupts (SIGINT) delivered to the main thread.
MaxInterrupts == 1
\* Longest string handed to sanitize_path_component on its own.
MaxLen == 3
\* Pages of a PDF handed to extract_content on its own.
MaxPages == 2
\* Longest text of one page.
MaxPageLen == 2
\* Images the OCR stage is given for one PDF.
MaxImages == 2
\* Largest min_content_length the extractor is constructed with.
MaxMinLen == 3

\* The "Safety limit" of the conflict loop.
SafetyLimit == 1000

\* ----------------------------------------------------------------- strings

Min(S) == CHOOSE m \in S : \A j \in S : m <= j
Max(S) == CHOOSE m \in S : \A j \in S : m >= j

\* The characters names are built from.  "TAB" and "NUL" stand for the tab
\* and the null character, which have no literal of their own.
Separators == {"/", "\\"}
InvalidChars == {"<", ">", ":", "\"", "|", "?", "*"}
StripChars == {".", " "}
Alphabet == {"a", "_", "TAB", "NUL"} \cup Separators \cup InvalidChars \cup StripChars

\* str.lower() on the letters the model's names use.
LowerChar(c) ==
    CASE c = "P" -> "p"
      [] c = "D" -> "d"
      [] c = "F" -> "f"
      [] OTHER -> c

Lower(s) == [i \in 1..Len(s) |-> LowerChar(s[i])]

StartsWith(s, p) == Len(s) >= Len(p) /\ SubSeq(s, 1, Len(p)) = p
EndsWith(s, p) == Len(s) >= Len(p) /\ SubSeq(s, Len(s) - Len(p) + 1, Len(s)) = p

\* pathlib's PurePath.suffix: from the last dot of the name, unless that dot
\* is the first or the last character.
Suffix(name) ==
    LET dots == {i \in 1..Len(name) : name[i] = "."}
    IN  IF dots = {} THEN <<>>
        ELSE LET i == Max(dots)
             IN  IF 1 < i /\ i < Len(name) THEN SubSeq(name, i, Len(name)) ELSE <<>>

\* str(counter) for counter >= 0.
RECURSIVE Digits(_)
Digits(n) ==
    LET d == <<"0", "1", "2", "3", "4", "5", "6", "7", "8", "9">>[(n % 10) + 1]
    IN  IF n < 10 THEN <<d>> ELSE Digits(n \div 10) \o <<d>>

\* str.strip('. '): drop the leading and trailing dots and spaces.
Strip(s) ==
    LET keep == {i \in 1..Len(s) : s[i] \notin StripChars}
    IN  IF keep = {} THEN <<>> ELSE SubSeq(s, Min(keep), Max(keep))

Unnamed == <<"U", "n", "n", "a", "m", "e", "d">>

\* FileSystemManager._sanitize_path_component.
sanitize_path_component(name) ==
    LET replaced == [i \in 1..Len(name) |->
                        IF name[i] \in Separators \cup InvalidChars THEN "_" ELSE name[i]]
        safe_name == Strip(replaced)
    IN  IF safe_name = <<>> THEN Unnamed ELSE safe_name

\* -------------------------------------------------------------- file names

Pdf == <<".", "p", "d", "f">>
NameA == <<"a">> \o Pdf
NameB == <<"b">> \o Pdf
NameC == <<"c", ".", "t", "x", "t">>
NameD == <<"d">>

\* Names the inbox can hold: regular files, and one name that is a directory.
FileNames == {NameA, NameB, NameC}
DirNames == {NameD}
InboxNames == FileNames \cup DirNames

\* A regular file with an upper-case extension, which only the process's
\* first inbox may hold (the user creates none while it runs).
NameU == <<"u", ".", "P", "D", "F">>
RegularNames == FileNames \cup {NameU}
AllNames == InboxNames \cup {NameU}

\* Config.SUPPORTED_EXTENSIONS.
SUPPORTED_EXTENSIONS ==
    {Pdf, <<".", "j", "p", "g">>, <<".", "p", "n", "g">>, <<".", "j", "p", "e", "g">>}

\* What the classifier may answer (category, filename): the second
\* filename is the first one's suffixed form, the second category sanitizes
\* to "Unnamed".
MetaChoices ==
    {[category |-> <<"A">>, filename |-> <<"a">>],
     [category |-> <<"A">>, filename |-> <<"a", "_", "1">>],
     [category |-> <<".">>, filename |-> <<"a">>]}

NoMeta == [category |-> <<>>, filename |-> <<>>]
NoPath == <<>>

\* File contents: the identity of the file they came from, and whether all of
\* it is there.  Files already in the output tree at start have identity 0.
Old == [id |-> 0, whole |-> TRUE]
MaxIds == MaxInit + MaxArrivals + MaxEntries
Ids == 1..MaxIds

Threads == {"main", "obs"}

VARIABLES
    inbox,       \* inbox name -> id of the entry there, 0 when absent
    tree,        \* output tree: <<category dir, file name>> -> contents
    dirs,        \* category directories that exist under the root
    nextId,      \* id of the next inbox entry
    arrivals,    \* entries created by the user so far
    removed,     \* ids of the files the user removed
    interrupts,  \* interrupts delivered so far
    intPhase,    \* the main thread's positions when an interrupt arrived
    prereq,      \* verify_prerequisites: "none" before the call, "ok", or the check that failed
    mainPc,      \* position of the main thread
    files,       \* run_initial_scan: the listed files
    scanIdx,     \* run_initial_scan: index of the file being processed, 0 before the listing
    processed,   \* run_initial_scan: processed_count
    obsState,    \* the observer: "none", "running", "stopping", "stopped"
    obsPc,       \* the dispatch thread: "none", "wait", "sleep", "callback", "exited"
    queue,       \* the observer's event queue (names)
    obsPath,     \* on_created: the path being handled
    pf,          \* per thread: the process_file invocation in progress
    ret,         \* per thread: what its last process_file call did
    cnt,         \* per file id: callback invocations by the scan and by the watcher
    classFailed, \* <<id, inbox name>> of the files whose classification raised
    preexisting, \* ids of the regular files in the inbox at process start
    scanRes,     \* run_initial_scan: what each callback invocation did, in order
    sanIn,       \* a string handed to sanitize_path_component
    sanOut,      \* its result, <<"-">> before the call
    exExists,    \* extract_content: filepath.exists() at entry
    exKind,      \* extract_content: "pdf" or "image", by the file's suffix
    min_content_length, \* ContentExtractor.min_content_length
    openRaises,  \* PdfReader(filepath) raises
    pages,       \* what extract_text() does on each page
    loadRaises,  \* convert_from_path / Image.open raises
    images,      \* what image_to_string does on each image
    exPc,        \* extract_content: "idle", "entry", "native", "threshold", "ocr", "returned", "raised"
    text,        \* the text accumulated for the result
    page_i,      \* _extract_pdf_text: the page at hand, 0 before the reader is opened
    ocr_text,    \* _extract_via_ocr: its text
    img_i,       \* _extract_via_ocr: the image at hand, 0 before the images are loaded
    native,      \* what stage 1 left in text, <<"-">> before stage 2
    ocrInvoked,  \* _extract_via_ocr was called
    rPc,         \* _resolve_target_path: "idle", "call", "while", "returned", "moved"
    counter,     \* _resolve_target_path: counter
    target_path, \* _resolve_target_path: target_path
    warned,      \* _resolve_target_path: the warning of line 134 was logged
    overwritten  \* the move landed on a path that existed

sysVars == <<inbox, tree, dirs, nextId, arrivals, removed, interrupts,
             intPhase, prereq, mainPc, files, scanIdx, processed, obsState, obsPc, queue,
             obsPath, pf, ret, cnt, classFailed, preexisting, scanRes>>
sanVars == <<sanIn, sanOut>>
extVars == <<exExists, exKind, min_content_length, openRaises, pages,
             loadRaises, images, exPc, text,
             page_i, ocr_text, img_i, native, ocrInvoked>>
resVars == <<rPc, counter, target_path, warned, overwritten>>
\* What no step of the process changes.
fixedVars == <<preexisting, sanVars, extVars, resVars>>
vars == <<sysVars, sanVars, extVars, resVars>>

\* ------------------------------------------------------------- file system

Icloud == <<".", "i", "c", "l", "o", "u", "d">>

\* Path.exists() and Path.is_file() of an inbox path.
PathExists(name) == inbox[name] # 0
IsFile(name) == inbox[name] # 0 /\ name \in RegularNames

\* FileSystemManager.validate_source_file, the name checks (lines 182-198).
NameAccepted(name) ==
    /\ ~StartsWith(name, <<".">>)
    /\ ~EndsWith(name, Icloud)
    /\ Lower(Suffix(name)) \in SUPPORTED_EXTENSIONS

\* FileSystemManager.validate_source_file.
validate_source_file(name) ==
    /\ NameAccepted(name)
    /\ PathExists(name) /\ IsFile(name)

\* The file name the conflict loop tries at `counter` (0: the unsuffixed name).
TargetName(safe_filename, k, extension) ==
    IF k = 0 THEN safe_filename \o extension
    ELSE safe_filename \o <<"_">> \o Digits(k) \o extension

\* FileSystemManager._resolve_target_path on the tree `tr`.  The while loop
\* tries the unsuffixed name, then _1, _2, ... and stops at the first name
\* that does not exist, or with _SafetyLimit when counter passes the limit:
\* the suffix it ends with is the lowest free one below the limit, or the
\* limit itself, which the loop never tests.
resolve_target_path(tr, target_dir, filename, extension) ==
    LET safe_filename == sanitize_path_component(filename)
        Taken(k) == <<target_dir, TargetName(safe_filename, k, extension)>> \in DOMAIN tr
        free == {k \in 1..(SafetyLimit - 1) : ~Taken(k)}
        last == IF ~Taken(0) THEN 0
                ELSE IF free = {} THEN SafetyLimit ELSE Min(free)
    IN  <<target_dir, TargetName(safe_filename, last, extension)>>

\* FileSystemManager._prepare_target_directory: the directory it returns.
prepare_target_directory(category) == sanitize_path_component(category)

\* ---------------------------------------------------------- process_file

IdlePf == [pc |-> "idle", path |-> NoPath, fid |-> 0, meta |-> NoMeta,
           target |-> NoPath, trace |-> <<>>]

\* The process is running: main has neither returned nor died.
Alive == mainPc \notin {"done0", "done1", "killed"}

\* The thread's code is executing (the dispatch thread is a daemon thread).
Running(t) == Alive /\ pf[t].pc # "idle"

\* ReturnTo with the exception handlers around the callback missing: an
\* exception ends the scan (main returns 1) or the dispatch thread.
ReturnToUncaught(t, res) ==
    /\ pf' = [pf EXCEPT ![t] = IdlePf]
    /\ ret' = [ret EXCEPT ![t] = res]
    /\ IF t = "main"
       THEN /\ scanIdx' = IF res = "raise" THEN scanIdx ELSE scanIdx + 1
            /\ processed' = IF res = "raise" THEN processed ELSE processed + 1
            /\ scanRes' = Append(scanRes, res)
            /\ mainPc' = IF res = "raise" THEN "done1" ELSE mainPc
            /\ UNCHANGED obsPc
       ELSE /\ obsPc' = IF res = "raise" THEN "exited" ELSE "wait"
            /\ UNCHANGED <<mainPc, scanIdx, processed, scanRes>>

\* The callback comes back to its caller with `res` ("True", "False", or "raise"
\* for an exception).  run_initial_scan (lines 133-144) counts a call that
\* returned and logs one that raised, and goes on to the next file either way;
\* on_created (lines 72-79) logs an exception and returns to the dispatcher.
ReturnTo(t, res) ==
    /\ pf' = [pf EXCEPT ![t] = IdlePf]
    /\ ret' = [ret EXCEPT ![t] = res]
    /\ IF t = "main"
       THEN /\ scanIdx' = scanIdx + 1
            /\ processed' = IF res = "raise" THEN processed ELSE processed + 1
            /\ scanRes' = Append(scanRes, res)
            /\ UNCHANGED <<mainPc, obsPc>>
       ELSE /\ obsPc' = "wait"
            /\ UNCHANGED <<mainPc, scanIdx, processed, scanRes>>

\* The caller invokes process_callback(filepath).
Call(t, name) ==
    /\ pf' = [pf EXCEPT ![t] = [IdlePf EXCEPT !.pc = "validate", !.path = name,
                                              !.fid = inbox[name]]]
    /\ cnt' = IF inbox[name] = 0 THEN cnt
              ELSE [cnt EXCEPT ![inbox[name]][t] = @ + 1]

Advance(t, pc, stage) ==
    pf' = [pf EXCEPT ![t].pc = pc, ![t].trace = Append(@, stage)]

\* process_file, step 1 (lines 93-96).  The existence check stats the path,
\* and a stat error other than "not found" is raised to the caller.
ValidateStep(t) ==
    /\ Running(t) /\ pf[t].pc = "validate"
    /\ \/ /\ validate_source_file(pf[t].path)
          /\ Advance(t, "extract", "validate")
          /\ UNCHANGED <<ret, scanIdx, processed, scanRes, mainPc, obsPc>>
       \/ /\ ~validate_source_file(pf[t].path)
          /\ ReturnTo(t, "False")
       \/ /\ NameAccepted(pf[t].path)
          /\ ReturnTo(t, "raise")
    /\ UNCHANGED <<inbox, tree, dirs, nextId, arrivals, removed, interrupts,
                   intPhase, files, obsState, queue, obsPath, cnt,
                   classFailed, prereq, fixedVars>>

\* ExtractStep with extract_content called outside the try of process_file:
\* its FileNotFoundError goes to the caller.
ExtractStepUncaught(t) ==
    /\ Running(t) /\ pf[t].pc = "extract"
    /\ \/ /\ ~PathExists(pf[t].path)
          /\ ReturnTo(t, "raise")
       \/ /\ PathExists(pf[t].path)
          /\ Advance(t, "classify", "extract")
          /\ UNCHANGED <<ret, scanIdx, processed, scanRes, mainPc, obsPc>>
    /\ UNCHANGED <<inbox, tree, dirs, nextId, arrivals, removed, interrupts,
                   intPhase, files, obsState, queue, obsPath, cnt,
                   classFailed, prereq, fixedVars>>

\* process_file, step 2 (lines 99-105): extract_content raises FileNotFoundError
\* when the file is gone (extractor.py lines 63-65), else returns a string.
ExtractStep(t) ==
    /\ Running(t) /\ pf[t].pc = "extract"
    /\ \/ /\ ~PathExists(pf[t].path)
          /\ ReturnTo(t, "False")
       \/ /\ PathExists(pf[t].path)
          /\ Advance(t, "classify", "extract")
          /\ UNCHANGED <<ret, scanIdx, processed, scanRes, mainPc, obsPc>>
    /\ UNCHANGED <<inbox, tree, dirs, nextId, arrivals, removed, interrupts,
                   intPhase, files, obsState, queue, obsPath, cnt,
                   classFailed, prereq, fixedVars>>

\* OllamaAnalyzer.analyze_document: metadata, or a raised failure.
analyze_document == MetaChoices \cup {NoMeta}

\* ClassifyStep with a classification failure answered by default metadata
\* instead of ending the file's pipeline.
ClassifyStepDefaulting(t) ==
    /\ Running(t) /\ pf[t].pc = "classify"
    /\ \E m \in analyze_document :
         /\ pf' = [pf EXCEPT
               ![t].pc = "move_file",
               ![t].meta = IF m = NoMeta THEN [category |-> <<"A">>, filename |-> <<"a">>]
                           ELSE m,
               ![t].trace = Append(@, IF m = NoMeta THEN "classify raised"
                                      ELSE "classify")]
         /\ classFailed' = IF m = NoMeta /\ PathExists(pf[t].path)
                           THEN classFailed \cup {<<inbox[pf[t].path], pf[t].path>>}
                           ELSE classFailed
    /\ UNCHANGED <<ret, scanIdx, processed, scanRes, mainPc, obsPc>>
    /\ UNCHANGED <<inbox, tree, dirs, nextId, arrivals, removed, interrupts,
                   intPhase, files, obsState, queue, obsPath, cnt,
                   prereq, fixedVars>>

\* process_file, step 3 (lines 107-109, 125-130).
ClassifyStep(t) ==
    /\ Running(t) /\ pf[t].pc = "classify"
    /\ \E m \in analyze_document :
         \/ /\ m = NoMeta
            /\ ReturnTo(t, "False")
            /\ classFailed' = IF PathExists(pf[t].path)
                              THEN classFailed \cup {<<inbox[pf[t].path], pf[t].path>>}
                              ELSE classFailed
         \/ /\ m # NoMeta
            /\ pf' = [pf EXCEPT ![t].pc = "move_file", ![t].meta = m,
                                ![t].trace = Append(@, "classify")]
            /\ UNCHANGED <<ret, scanIdx, processed, scanRes, mainPc, obsPc, classFailed>>
    /\ UNCHANGED <<inbox, tree, dirs, nextId, arrivals, removed, interrupts,
                   intPhase, files, obsState, queue, obsPath, cnt,
                   prereq, fixedVars>>

\* MoveResolve with the extension put in lower case.
MoveResolveLowering(t) ==
    /\ Running(t) /\ pf[t].pc = "move_file"
    /\ \/ /\ ~PathExists(pf[t].path)
          /\ ReturnTo(t, "False")
          /\ UNCHANGED dirs
       \/ /\ PathExists(pf[t].path)
          /\ ReturnTo(t, "False")
          /\ UNCHANGED dirs
       \/ /\ PathExists(pf[t].path)
          /\ LET target_dir == prepare_target_directory(pf[t].meta.category)
             IN  /\ dirs' = dirs \cup {target_dir}
                 /\ pf' = [pf EXCEPT
                      ![t].pc = "move",
                      ![t].trace = Append(@, "resolve"),
                      ![t].target = resolve_target_path(tree, target_dir,
                                        pf[t].meta.filename, Lower(Suffix(pf[t].path)))]
          /\ UNCHANGED <<ret, scanIdx, processed, scanRes, mainPc, obsPc>>
    /\ UNCHANGED <<inbox, tree, nextId, arrivals, removed, interrupts,
                   intPhase, files, obsState, queue, obsPath, cnt,
                   classFailed, prereq, fixedVars>>

\* move_file, lines 54-65: the source check, the target directory and the
\* target path.  mkdir may fail; the exception is caught and None returned.
MoveResolve(t) ==
    /\ Running(t) /\ pf[t].pc = "move_file"
    /\ \/ /\ ~PathExists(pf[t].path)
          /\ ReturnTo(t, "False")
          /\ UNCHANGED dirs
       \/ /\ PathExists(pf[t].path)
          /\ ReturnTo(t, "False")
          /\ UNCHANGED dirs
       \/ /\ PathExists(pf[t].path)
          /\ LET target_dir == prepare_target_directory(pf[t].meta.category)
             IN  /\ dirs' = dirs \cup {target_dir}
                 /\ pf' = [pf EXCEPT
                      ![t].pc = "move",
                      ![t].trace = Append(@, "resolve"),
                      ![t].target = resolve_target_path(tree, target_dir,
                                        pf[t].meta.filename, Suffix(pf[t].path))]
          /\ UNCHANGED <<ret, scanIdx, processed, scanRes, mainPc, obsPc>>
    /\ UNCHANGED <<inbox, tree, nextId, arrivals, removed, interrupts,
                   intPhase, files, obsState, queue, obsPath, cnt,
                   classFailed, prereq, fixedVars>>

\* shutil.move(source, target), line 68: a rename where it can, else a copy
\* followed by the removal of the source.  "ok": the file is at the target and
\* no longer at the source.  "fail": nothing changed.  "partial": the copy broke
\* off and left an incomplete target.  "copied": the copy is complete and the
\* source could not be removed.  All but "ok" raise.
MoveOutcomes == {"ok", "fail", "partial", "copied"}

shutil_move(t, outcome) ==
    LET src == pf[t].path
        content == [id |-> inbox[src], whole |-> outcome # "partial"]
    IN  /\ tree' = IF outcome = "fail" THEN tree ELSE (pf[t].target :> content) @@ tree
        /\ inbox' = IF outcome = "ok" THEN [inbox EXCEPT ![src] = 0] ELSE inbox

\* move_file, lines 67-80, and process_file's lines 115-123.
MoveDo(t) ==
    /\ Running(t) /\ pf[t].pc = "move"
    /\ \/ /\ ~PathExists(pf[t].path)
          /\ ReturnTo(t, "False")
          /\ UNCHANGED <<inbox, tree>>
       \/ /\ PathExists(pf[t].path)
          /\ \E outcome \in MoveOutcomes :
               /\ shutil_move(t, outcome)
               /\ ReturnTo(t, IF outcome = "ok" THEN "True" ELSE "False")
    /\ UNCHANGED <<dirs, nextId, arrivals, removed, interrupts,
                   intPhase, files, obsState, queue, obsPath, cnt,
                   classFailed, prereq, fixedVars>>

\* ------------------------------------------------------------- main thread

\* What verify_prerequisites finds: all well, or the first check that fails
\* (Config.validate, Config.ensure_directories, analyzer.check_connection).
PrerequisiteOutcomes == {"ok", "config", "directories", "connection"}

\* VerifyPrerequisites with a failed connectivity check only logged.
VerifyPrerequisitesWarnOnly ==
    /\ mainPc = "verify"
    /\ \E outcome \in PrerequisiteOutcomes :
         /\ prereq' = outcome
         /\ mainPc' = IF outcome \in {"ok", "connection"} THEN "scan" ELSE "done1"
    /\ UNCHANGED <<inbox, tree, dirs, nextId, arrivals, removed, interrupts,
                   intPhase, files, scanIdx, processed, obsState, obsPc, queue,
                   obsPath, pf, ret, cnt, classFailed, scanRes, fixedVars>>

\* main, lines 185-188: verify_prerequisites (lines 133-169) passes, or fails
\* (configuration, directories, or the classifier's check_connection) and main
\* returns 1.
VerifyPrerequisites ==
    /\ mainPc = "verify"
    /\ \E outcome \in PrerequisiteOutcomes :
         /\ prereq' = outcome
         /\ mainPc' = IF outcome = "ok" THEN "scan" ELSE "done1"
    /\ UNCHANGED <<inbox, tree, dirs, nextId, arrivals, removed, interrupts,
                   intPhase, files, scanIdx, processed, obsState, obsPc, queue,
                   obsPath, pf, ret, cnt, classFailed, scanRes, fixedVars>>

\* The orders iterdir() may list the set S in.
Orders(S) ==
    {q \in [1..Cardinality(S) -> S] : \A i, j \in 1..Cardinality(S) : i # j => q[i] # q[j]}

\* ScanList with run() starting the observer before the catch-up scan.
ScanListObserverFirst ==
    /\ mainPc = "scan"
    /\ \E q \in Orders({n \in AllNames : IsFile(n)}) :
         /\ files' = q
         /\ scanIdx' = 1
         /\ processed' = 0
         /\ mainPc' = "scanning"
    /\ obsState' = "running" /\ obsPc' = "wait"
    /\ UNCHANGED <<inbox, tree, dirs, nextId, arrivals, removed, interrupts,
                   intPhase, queue, obsPath, pf, ret, cnt,
                   classFailed, scanRes, prereq, fixedVars>>

\* run_initial_scan, lines 113-132: list the regular files of the inbox.
ScanList ==
    /\ mainPc = "scan"
    /\ \E q \in Orders({n \in AllNames : IsFile(n)}) :
         /\ files' = q
         /\ scanIdx' = 1
         /\ processed' = 0
         /\ mainPc' = "scanning"
    /\ UNCHANGED <<inbox, tree, dirs, nextId, arrivals, removed, interrupts,
                   intPhase, obsState, obsPc, queue, obsPath, pf, ret, cnt,
                   classFailed, scanRes, prereq, fixedVars>>

\* run_initial_scan, lines 135-138: call the callback on the next listed file.
ScanNext ==
    /\ mainPc = "scanning" /\ pf["main"].pc = "idle"
    /\ scanIdx <= Len(files)
    /\ Call("main", files[scanIdx])
    /\ UNCHANGED <<inbox, tree, dirs, nextId, arrivals, removed, interrupts,
                   intPhase, mainPc, files, scanIdx, processed, obsState, obsPc, queue,
                   obsPath, ret, classFailed, scanRes, prereq, fixedVars>>

\* run_initial_scan, lines 146-148: the loop is done; run() goes on (line 194).
ScanEnd ==
    /\ mainPc = "scanning" /\ pf["main"].pc = "idle"
    /\ scanIdx > Len(files)
    /\ mainPc' = "start"
    /\ UNCHANGED <<inbox, tree, dirs, nextId, arrivals, removed, interrupts,
                   intPhase, files, scanIdx, processed, obsState, obsPc, queue,
                   obsPath, pf, ret, cnt, classFailed, scanRes, prereq, fixedVars>>

\* StartMonitoring with an observer that reports the files already in the
\* directory as created.
StartMonitoringReplaying ==
    /\ mainPc = "start"
    /\ obsState' = "running"
    /\ obsPc' = "wait"
    /\ \E q \in Orders({n \in AllNames : IsFile(n)}) : queue' = q
    /\ mainPc' = "live"
    /\ UNCHANGED <<inbox, tree, dirs, nextId, arrivals, removed, interrupts,
                   intPhase, files, scanIdx, processed, obsPath, pf, ret, cnt,
                   classFailed, scanRes, prereq, fixedVars>>

\* start_monitoring, lines 150-173, and run's lines 196-200: the observer is
\* scheduled and started and main blocks in its sleep loop; or establishing
\* the watch raises, which main (lines 208-210) turns into exit code 1.
StartMonitoring ==
    /\ mainPc = "start"
    /\ \/ /\ obsState' = "running"
          /\ obsPc' = "wait"
          /\ queue' = <<>>
          /\ mainPc' = "live"
       \/ /\ mainPc' = "done1"
          /\ UNCHANGED <<obsState, obsPc, queue>>
    /\ UNCHANGED <<inbox, tree, dirs, nextId, arrivals, removed, interrupts,
                   intPhase, files, scanIdx, processed, obsPath, pf, ret, cnt,
                   classFailed, scanRes, prereq, fixedVars>>

\* KeyboardInterrupt in the main thread.  run() catches it only inside its
\* try (lines 197-205), that is in the sleep loop; run_initial_scan,
\* process_file and main catch Exception, which KeyboardInterrupt is not.
Interrupt ==
    /\ Alive /\ interrupts < MaxInterrupts
    /\ interrupts' = interrupts + 1
    /\ intPhase' = intPhase \cup {mainPc}
    /\ mainPc' = IF mainPc = "live" THEN "stopping" ELSE "killed"
    /\ UNCHANGED <<inbox, tree, dirs, nextId, arrivals, removed,
                   files, scanIdx, processed, obsState, obsPc, queue,
                   obsPath, pf, ret, cnt, classFailed, scanRes, prereq, fixedVars>>

\* stop_monitoring, lines 177-178: observer.stop().
StopObserver ==
    /\ mainPc = "stopping"
    /\ obsState' = "stopping"
    /\ mainPc' = "joining"
    /\ UNCHANGED <<inbox, tree, dirs, nextId, arrivals, removed, interrupts,
                   intPhase, files, scanIdx, processed, obsPc, queue,
                   obsPath, pf, ret, cnt, classFailed, scanRes, prereq, fixedVars>>

\* JoinObserver returning without waiting for the dispatch thread to end.
JoinObserverNoWait ==
    /\ mainPc = "joining"
    /\ obsState' = "stopped"
    /\ mainPc' = "done0"
    /\ UNCHANGED <<inbox, tree, dirs, nextId, arrivals, removed, interrupts,
                   intPhase, files, scanIdx, processed, obsPc, queue,
                   obsPath, pf, ret, cnt, classFailed, scanRes, prereq, fixedVars>>

\* stop_monitoring, lines 179-180: observer.join() returns once the dispatch
\* thread has ended; run() and main return, main with 0 (lines 212-213).
JoinObserver ==
    /\ mainPc = "joining" /\ obsPc = "exited"
    /\ obsState' = "stopped"
    /\ mainPc' = "done0"
    /\ UNCHANGED <<inbox, tree, dirs, nextId, arrivals, removed, interrupts,
                   intPhase, files, scanIdx, processed, obsPc, queue,
                   obsPath, pf, ret, cnt, classFailed, scanRes, prereq, fixedVars>>

\* --------------------------------------------------------- dispatch thread

\* The dispatcher takes the next event and calls on_created (lines 58-66):
\* a directory event is ignored, a file event starts the stabilization wait.
Dispatch ==
    /\ Alive /\ obsState = "running" /\ obsPc = "wait" /\ queue # <<>>
    /\ queue' = Tail(queue)
    /\ \/ /\ Head(queue) \in DirNames
          /\ UNCHANGED <<obsPc, obsPath>>
       \/ /\ Head(queue) \notin DirNames
          /\ obsPc' = "sleep"
          /\ obsPath' = Head(queue)
    /\ UNCHANGED <<inbox, tree, dirs, nextId, arrivals, removed, interrupts,
                   intPhase, mainPc, files, scanIdx, processed, obsState,
                   pf, ret, cnt, classFailed, scanRes, prereq, fixedVars>>

\* on_created, lines 66-74: the delay is over, the callback is called.
OnCreatedCall ==
    /\ Alive /\ obsPc = "sleep"
    /\ obsPc' = "callback"
    /\ Call("obs", obsPath)
    /\ UNCHANGED <<inbox, tree, dirs, nextId, arrivals, removed, interrupts,
                   intPhase, mainPc, files, scanIdx, processed, obsState, queue,
                   obsPath, ret, classFailed, scanRes, prereq, fixedVars>>

\* The dispatcher finds the observer stopped and ends; what is still queued is
\* not dispatched.
DispatchExit ==
    /\ Alive /\ obsState = "stopping" /\ obsPc = "wait"
    /\ obsPc' = "exited"
    /\ UNCHANGED <<inbox, tree, dirs, nextId, arrivals, removed, interrupts,
                   intPhase, mainPc, files, scanIdx, processed, obsState, queue,
                   obsPath, pf, ret, cnt, classFailed, scanRes, prereq, fixedVars>>

\* ------------------------------------------------------------- environment

\* The user puts a new entry into the inbox; a running observer queues its
\* creation event.
CreateEntry(n) ==
    /\ Alive /\ mainPc # "verify"
    /\ arrivals < MaxArrivals \/ nextId <= MaxEntries
    /\ inbox[n] = 0
    /\ inbox' = [inbox EXCEPT ![n] = nextId]
    /\ nextId' = nextId + 1
    /\ arrivals' = arrivals + 1
    /\ queue' = IF obsState = "running" THEN Append(queue, n) ELSE queue
    /\ UNCHANGED <<tree, dirs, removed, interrupts, intPhase, mainPc, files,
                   scanIdx, processed, obsState, obsPc, obsPath, pf, ret, cnt,
                   classFailed, scanRes, prereq, fixedVars>>

\* The user takes a file out of the inbox while the pipeline is handling it
\* (at any other time the pipeline finds the same as when it is taken away
\* right after validation began).
RemoveEntry(n) ==
    /\ Cardinality(removed) < MaxRemovals /\ IsFile(n)
    /\ \E t \in Threads : Running(t) /\ pf[t].path = n
    /\ inbox' = [inbox EXCEPT ![n] = 0]
    /\ removed' = removed \cup {inbox[n]}
    /\ UNCHANGED <<tree, dirs, nextId, arrivals, interrupts, intPhase, mainPc, files,
                   scanIdx, processed, obsState, obsPc, queue, obsPath, pf, ret,
                   cnt, classFailed, scanRes, prereq, fixedVars>>

\* ----------------------------------------------------------- specification

NameOrder == <<NameA, NameB, NameC, NameD, NameU>>
IndexOf(n) == CHOOSE i \in 1..Len(NameOrder) : NameOrder[i] = n

\* The inbox holding the entries S, numbered in NameOrder.
InboxOf(S) ==
    [n \in AllNames |->
        IF n \in S THEN Cardinality({m \in S : IndexOf(m) <= IndexOf(n)}) ELSE 0]

DirA == <<"A">>

\* The output tree whose directory A holds a.pdf under the suffixes K (0: none).
TreeOf(K) == [p \in {<<DirA, TargetName(<<"a">>, k, Pdf)>> : k \in K} |-> Old]

\* Output trees the process may find: empty, or a.pdf and a_2.pdf taken.
InitSuffixSets == {{}, {0, 2}}

\* Inboxes the process may find: empty, or a.pdf alone or with one more entry
\* (b.pdf alone is a.pdf alone under another name).
InitInboxes ==
    {T \in SUBSET InboxNames : Cardinality(T) <= MaxInit /\ (T = {} \/ NameA \in T)}

InitSys(inboxes, suffixSets) ==
    /\ \E S \in inboxes :
         /\ inbox = InboxOf(S)
         /\ nextId = Cardinality(S) + 1
         /\ preexisting = {InboxOf(S)[n] : n \in S \cap RegularNames}
    /\ \E K \in suffixSets :
         /\ tree = TreeOf(K)
         /\ dirs = IF K = {} THEN {} ELSE {DirA}
    /\ arrivals = 0 /\ removed = {}
    /\ interrupts = 0 /\ intPhase = {}
    /\ prereq = "none" /\ mainPc = "verify"
    /\ files = <<>> /\ scanIdx = 0 /\ processed = 0 /\ scanRes = <<>>
    /\ obsState = "none" /\ obsPc = "none" /\ queue = <<>> /\ obsPath = NoPath
    /\ pf = [t \in Threads |-> IdlePf]
    /\ ret = [t \in Threads |-> "none"]
    /\ cnt = [i \in Ids |-> [t \in Threads |-> 0]]
    /\ classFailed = {}

\* No call of _sanitize_path_component on its own.
SanIdle == sanIn = <<>> /\ sanOut = <<"-">>

\* No call of extract_content on its own.
ExtIdle ==
    /\ exExists = FALSE /\ exKind = "pdf" /\ min_content_length = 0
    /\ openRaises = FALSE /\ pages = <<>> /\ loadRaises = FALSE /\ images = <<>>
    /\ exPc = "idle" /\ text = <<>> /\ page_i = 0 /\ ocr_text = <<>> /\ img_i = 0
    /\ native = <<"-">> /\ ocrInvoked = FALSE

\* No call of _resolve_target_path on its own.
ResIdle ==
    /\ rPc = "idle" /\ counter = 0 /\ target_path = NoPath
    /\ warned = FALSE /\ overwritten = FALSE

Init ==
    /\ InitSys(InitInboxes, InitSuffixSets)
    /\ SanIdle /\ ExtIdle /\ ResIdle

\* The process starts on an output tree whose directory A holds a.pdf and
\* every suffixed name a_1.pdf .. a_1000.pdf the conflict loop can try.
InitFull ==
    /\ InitSys({{NameA}}, {0..SafetyLimit})
    /\ SanIdle /\ ExtIdle /\ ResIdle

Next ==
    \/ VerifyPrerequisites
    \/ ScanList
    \/ ScanNext
    \/ ScanEnd
    \/ StartMonitoring
    \/ Interrupt
    \/ StopObserver
    \/ JoinObserver
    \/ Dispatch
    \/ OnCreatedCall
    \/ DispatchExit
    \/ \E n \in InboxNames : CreateEntry(n)
    \/ \E n \in InboxNames : RemoveEntry(n)
    \/ \E t \in Threads : ValidateStep(t)
    \/ \E t \in Threads : ExtractStep(t)
    \/ \E t \in Threads : ClassifyStep(t)
    \/ \E t \in Threads : MoveResolve(t)
    \/ \E t \in Threads : MoveDo(t)

Spec == Init /\ [][Next]_vars

SpecFull == InitFull /\ [][Next]_vars

\* The process starts on an inbox that holds u.PDF.
InitCase ==
    /\ InitSys({{NameU}}, InitSuffixSets)
    /\ SanIdle /\ ExtIdle /\ ResIdle

SpecCase == InitCase /\ [][Next]_vars

\* ----------------------------------------------- sanitization on its own

\* The strings of at most MaxLen characters.
Strings == UNION {[1..n -> Alphabet] : n \in 0..MaxLen}

InitSan ==
    /\ InitSys({{}}, {{}})
    /\ sanIn \in Strings
    /\ sanOut = <<"-">>
    /\ ExtIdle /\ ResIdle

\* _sanitize_path_component is called on sanIn.
SanitizeCall ==
    /\ sanOut = <<"-">>
    /\ sanOut' = sanitize_path_component(sanIn)
    /\ UNCHANGED <<sysVars, sanIn, extVars, resVars>>

SpecSan == InitSan /\ [][SanitizeCall]_vars

\* ------------------------------------------- extract_content on its own

\* An engine call that raised.
Fails == <<"!">>

\* str.strip(): drop the leading and trailing whitespace ("NL" is the newline).
Whitespace == {" ", "NL"}
StripWs(s) ==
    LET keep == {i \in 1..Len(s) : s[i] \notin Whitespace}
    IN  IF keep = {} THEN <<>> ELSE SubSeq(s, Min(keep), Max(keep))

SeqsUpTo(S, n) == UNION {[1..k -> S] : k \in 0..n}

\* What extract_text() may return for a page ("" and None are alike to the
\* code), or it raises (Fails).
PageTexts == SeqsUpTo({"x", " "}, MaxPageLen)
PageOutcomes == PageTexts \cup {Fails}
\* What image_to_string may return for an image, or it raises (Fails).
OcrOutcomes == {<<>>, <<"x">>, <<"y">>, Fails}

\* A file and an extractor: a file that does not exist, an image (one image
\* to recognise), or a PDF with its pages and the images it converts to.
InitExt ==
    /\ InitSys({{}}, {{}})
    /\ SanIdle /\ ResIdle
    /\ exExists \in BOOLEAN
    /\ exKind \in {"pdf", "image"}
    /\ min_content_length \in 0..MaxMinLen
    /\ openRaises \in BOOLEAN
    /\ pages \in SeqsUpTo(PageOutcomes, MaxPages)
    /\ loadRaises \in BOOLEAN
    /\ images \in SeqsUpTo(OcrOutcomes, MaxImages)
    /\ openRaises => pages = <<>>
    /\ loadRaises => images = <<>>
    /\ exKind = "image" => ~openRaises /\ pages = <<>> /\ (loadRaises \/ Len(images) = 1)
    /\ ~exExists => /\ exKind = "pdf" /\ min_content_length = 0
                    /\ ~openRaises /\ pages = <<>> /\ ~loadRaises /\ images = <<>>
    /\ exPc = "entry" /\ text = <<>> /\ page_i = 0 /\ ocr_text = <<>> /\ img_i = 0
    /\ native = <<"-">> /\ ocrInvoked = FALSE

\* extract_content, lines 63-73: the existence check, then stage 1 for a PDF.
ExtractEnter ==
    /\ exPc = "entry"
    /\ exPc' = IF ~exExists THEN "raised"
               ELSE IF exKind = "pdf" THEN "native" ELSE "threshold"
    /\ UNCHANGED <<sysVars, sanVars, resVars, exExists, exKind, min_content_length,
                   openRaises, pages, loadRaises, images, text, page_i, ocr_text, img_i, native, ocrInvoked>>

\* _extract_pdf_text, lines 96-113: open the reader, then page by page append
\* the page's text and a newline; one try (lines 97-111) holds the whole loop,
\* so the first exception ends it and the text so far is returned.
NativeStep ==
    /\ exPc = "native"
    /\ IF openRaises
       THEN exPc' = "threshold" /\ UNCHANGED <<text, page_i>>
       ELSE IF page_i = 0
       THEN page_i' = 1 /\ UNCHANGED <<exPc, text>>
       ELSE IF page_i > Len(pages) \/ pages[page_i] = Fails
       THEN exPc' = "threshold" /\ UNCHANGED <<text, page_i>>
       ELSE /\ page_i' = page_i + 1
            /\ text' = IF pages[page_i] = <<>> THEN text
                       ELSE text \o pages[page_i] \o <<"NL">>
            /\ UNCHANGED exPc
    /\ UNCHANGED <<sysVars, sanVars, resVars, exExists, exKind, min_content_length,
                   openRaises, pages, loadRaises, images, ocr_text, img_i, native, ocrInvoked>>

\* ThresholdStep comparing the length of the text as it is, whitespace
\* included.
ThresholdStepUnstripped ==
    /\ exPc = "threshold"
    /\ native' = text
    /\ IF Len(text) < min_content_length
       THEN exPc' = "ocr" /\ ocrInvoked' = TRUE
       ELSE exPc' = "returned" /\ UNCHANGED ocrInvoked
    /\ UNCHANGED <<sysVars, sanVars, resVars, exExists, exKind, min_content_length,
                   openRaises, pages, loadRaises, images, text, page_i, ocr_text, img_i>>

\* extract_content, lines 75-81 and 83-86: the OCR fallback is called when
\* len(text.strip()) < min_content_length, else the text is returned.
ThresholdStep ==
    /\ exPc = "threshold"
    /\ native' = text
    /\ IF Len(StripWs(text)) < min_content_length
       THEN exPc' = "ocr" /\ ocrInvoked' = TRUE
       ELSE exPc' = "returned" /\ UNCHANGED ocrInvoked
    /\ UNCHANGED <<sysVars, sanVars, resVars, exExists, exKind, min_content_length,
                   openRaises, pages, loadRaises, images, text, page_i, ocr_text, img_i>>

\* OcrStep with no handler around the engine calls: a failure leaves
\* extract_content as an exception.
OcrStepUncaught ==
    /\ exPc = "ocr"
    /\ IF loadRaises \/ (0 < img_i /\ img_i <= Len(images) /\ images[img_i] = Fails)
       THEN exPc' = "raised" /\ UNCHANGED <<text, ocr_text, img_i>>
       ELSE IF img_i = 0
       THEN img_i' = 1 /\ UNCHANGED <<exPc, text, ocr_text>>
       ELSE IF img_i > Len(images)
       THEN exPc' = "returned" /\ text' = text \o ocr_text /\ UNCHANGED <<ocr_text, img_i>>
       ELSE /\ img_i' = img_i + 1
            /\ ocr_text' = ocr_text \o images[img_i]
            /\ UNCHANGED <<exPc, text>>
    /\ UNCHANGED <<sysVars, sanVars, resVars, exExists, exKind, min_content_length,
                   openRaises, pages, loadRaises, images, page_i, native, ocrInvoked>>

\* OcrStep with the OCR text put in the place of the text so far.
OcrStepReplacing ==
    /\ exPc = "ocr"
    /\ IF loadRaises
       THEN exPc' = "returned" /\ text' = ocr_text /\ UNCHANGED <<ocr_text, img_i>>
       ELSE IF img_i = 0
       THEN img_i' = 1 /\ UNCHANGED <<exPc, text, ocr_text>>
       ELSE IF img_i > Len(images) \/ images[img_i] = Fails
       THEN exPc' = "returned" /\ text' = ocr_text /\ UNCHANGED <<ocr_text, img_i>>
       ELSE /\ img_i' = img_i + 1
            /\ ocr_text' = ocr_text \o images[img_i]
            /\ UNCHANGED <<exPc, text>>
    /\ UNCHANGED <<sysVars, sanVars, resVars, exExists, exKind, min_content_length,
                   openRaises, pages, loadRaises, images, page_i, native, ocrInvoked>>

\* _extract_via_ocr, lines 126-152, and extract_content's lines 80-86: load
\* the images, recognise them one by one and append each result; an exception
\* (line 149) ends the loop and what was recognised so far is returned and
\* appended to the text.
OcrStep ==
    /\ exPc = "ocr"
    /\ IF loadRaises
       THEN exPc' = "returned" /\ text' = text \o ocr_text /\ UNCHANGED <<ocr_text, img_i>>
       ELSE IF img_i = 0
       THEN img_i' = 1 /\ UNCHANGED <<exPc, text, ocr_text>>
       ELSE IF img_i > Len(images) \/ images[img_i] = Fails
       THEN exPc' = "returned" /\ text' = text \o ocr_text /\ UNCHANGED <<ocr_text, img_i>>
       ELSE /\ img_i' = img_i + 1
            /\ ocr_text' = ocr_text \o images[img_i]
            /\ UNCHANGED <<exPc, text>>
    /\ UNCHANGED <<sysVars, sanVars, resVars, exExists, exKind, min_content_length,
                   openRaises, pages, loadRaises, images, page_i, native, ocrInvoked>>

NextExt == ExtractEnter \/ NativeStep \/ ThresholdStep \/ OcrStep

SpecExt == InitExt /\ [][NextExt]_vars

\* --------------------------------------- _resolve_target_path on its own

\* The call _resolve_target_path(A, "a.", ".pdf") of move_file (line 65), on
\* output trees whose directory A holds a.pdf under these sets of suffixes.
ResolveFilename == <<"a", ".">>
ResolveSuffixSets ==
    {{}, {0}, {0, 1}, {0, 2}, {1, 2},
     0..(SafetyLimit - 2), 0..(SafetyLimit - 1), 0..SafetyLimit,
     (0..SafetyLimit) \ {SafetyLimit - 1}}

\* The file being moved.
Moved == [id |-> 1, whole |-> TRUE]

InitResolve ==
    /\ InitSys({{}}, ResolveSuffixSets)
    /\ SanIdle /\ ExtIdle
    /\ rPc = "call" /\ counter = 0 /\ target_path = NoPath
    /\ warned = FALSE /\ overwritten = FALSE

\* _resolve_target_path, lines 123-127: the unsuffixed path, counter = 1.
ResolveEnter ==
    /\ rPc = "call"
    /\ target_path' = <<DirA, TargetName(sanitize_path_component(ResolveFilename), 0, Pdf)>>
    /\ counter' = 1
    /\ rPc' = "while"
    /\ UNCHANGED <<sysVars, sanVars, extVars, warned, overwritten>>

\* ResolveLoop without the safety limit of lines 133-135.
ResolveLoopUnlimited ==
    /\ rPc = "while"
    /\ IF target_path \in DOMAIN tree
       THEN /\ target_path' =
                 <<DirA, TargetName(sanitize_path_component(ResolveFilename), counter, Pdf)>>
            /\ counter' = counter + 1
            /\ UNCHANGED <<rPc, warned>>
       ELSE /\ rPc' = "returned"
            /\ UNCHANGED <<target_path, counter, warned>>
    /\ UNCHANGED <<sysVars, sanVars, extVars, overwritten>>

\* _resolve_target_path, lines 128-140: one test of the while condition and,
\* when the path exists, one pass through the body: the path with the suffix
\* _counter, counter + 1, and past the limit a warning and the break.
ResolveLoop ==
    /\ rPc = "while"
    /\ IF target_path \in DOMAIN tree
       THEN /\ target_path' =
                 <<DirA, TargetName(sanitize_path_component(ResolveFilename), counter, Pdf)>>
            /\ counter' = counter + 1
            /\ IF counter + 1 > SafetyLimit
               THEN warned' = TRUE /\ rPc' = "returned"
               ELSE UNCHANGED <<rPc, warned>>
       ELSE /\ rPc' = "returned"
            /\ UNCHANGED <<target_path, counter, warned>>
    /\ UNCHANGED <<sysVars, sanVars, extVars, overwritten>>

\* move_file, lines 65-73: the path that came back is handed to shutil.move
\* as it is, and the move succeeds.
ResolveMove ==
    /\ rPc = "returned"
    /\ overwritten' = (target_path \in DOMAIN tree)
    /\ tree' = (target_path :> Moved) @@ tree
    /\ rPc' = "moved"
    /\ UNCHANGED <<inbox, dirs, nextId, arrivals, removed, interrupts,
                   intPhase, prereq, mainPc, files, scanIdx, processed, obsState,
                   obsPc, queue, obsPath, pf, ret, cnt, classFailed, preexisting,
                   scanRes, sanVars, extVars, counter, target_path, warned>>

NextResolve == ResolveEnter \/ ResolveLoop \/ ResolveMove

\* The call runs on: nothing in it waits for anything.
SpecResolve == InitResolve /\ [][NextResolve]_vars /\ WF_vars(NextResolve)

\* ------------------------------------------------------------------ claims

InMoveFile(t) == pf[t].pc \in {"move_file", "move"}

\* The step is thread t's move_file ending with the move (or the directory
\* creation) having failed.
MoveFailed(t) == InMoveFile(t) /\ pf'[t].pc = "idle" /\ ret'[t] = "False"

\* C1: whenever move_file is about to move, the path _resolve_target_path
\* returned does not exist in the output tree, so no move lands on an
\* existing file.
C1_TargetFreeAtMove ==
    \A t \in Threads : pf[t].pc = "move" => pf[t].target \notin DOMAIN tree

\* C2: the path a file is about to be moved to is distinct from every path
\* in use and carries the lowest free suffix: the unsuffixed name when that
\* is free, else name_k with every name_j, 1 <= j < k, and the unsuffixed
\* name taken.
C2_LowestFreeSuffix ==
    \A t \in Threads : pf[t].pc = "move" =>
        LET dir == sanitize_path_component(pf[t].meta.category)
            safe == sanitize_path_component(pf[t].meta.filename)
            Name(k) == <<dir, TargetName(safe, k, Suffix(pf[t].path))>>
        IN  /\ pf[t].target \notin DOMAIN tree
            /\ \E k \in 0..SafetyLimit :
                 /\ pf[t].target = Name(k)
                 /\ \A j \in 0..(k - 1) : Name(j) \in DOMAIN tree

\* C3: no step deletes or changes a file: every file of the output tree is
\* still there with the same contents after the step, and every file that was
\* in the inbox is still at its inbox path or is, whole, at exactly one path
\* of the output tree (unless the user took it away).
C3_NoFileLost ==
    [][/\ \A p \in DOMAIN tree : p \in DOMAIN tree' /\ tree'[p] = tree[p]
       /\ \A n \in FileNames :
            inbox[n] # 0 =>
              \/ inbox'[n] = inbox[n]
              \/ inbox[n] \in removed'
              \/ Cardinality({p \in DOMAIN tree' :
                    tree'[p] = [id |-> inbox[n], whole |-> TRUE]}) = 1]_vars

\* The catch-up scan has listed the inbox and gone through the whole list.
ScanCompleted == scanIdx = Len(files) + 1

C4_Order ==
    \A t \in Threads :
      /\ pf[t].pc = "extract" => pf[t].trace = <<"validate">>
      /\ pf[t].pc = "classify" => pf[t].trace = <<"validate", "extract">>
      /\ InMoveFile(t) =>
           /\ pf[t].meta \in MetaChoices
           /\ SubSeq(pf[t].trace, 1, 3) = <<"validate", "extract", "classify">>

C4_FailedStaysPut ==
    /\ \A t \in Threads :
         (pf[t].pc = "classify" /\ pf'[t].pc \notin {"classify", "move_file"}) =>
            /\ pf'[t].pc = "idle" /\ ret'[t] = "False"
            /\ inbox' = inbox /\ tree' = tree
    /\ tree' # tree =>
         \E t \in Threads : pf[t].pc = "move" /\ pf[t].meta \in MetaChoices

\* C4: within one call of process_file the stages run in the order extract,
\* classify, place; a thread is in move_file only after classification has
\* returned metadata in this call; the step in which classification raises
\* ends the call with False and changes neither the inbox nor the output
\* tree, and the output tree changes only in the move of a call whose
\* classification returned metadata.
C4_ClassifyBeforeMove == []C4_Order /\ [][C4_FailedStaysPut]_vars

\* A file's classification raised and process_file returned False to the scan,
\* the file still in the inbox.
C4_Witness ==
    /\ \E f \in classFailed : inbox[f[2]] = f[1]
    /\ pf["main"].pc = "idle" /\ ret["main"] = "False"
    /\ processed > 0

\* C5: a regular file that was in the inbox at process start is passed to
\* the callback at most once by the scan and never by the watcher, exactly
\* once when the scan has gone through its list (also when it failed and
\* stayed in the inbox); the observer is started only after the scan.
C5_PreexistingOnce ==
    /\ \A id \in preexisting :
         /\ cnt[id]["obs"] = 0
         /\ cnt[id]["main"] <= 1
         /\ ScanCompleted => cnt[id]["main"] = 1
    /\ obsState # "none" => ScanCompleted

\* A file from before the start failed in the scan, is still in the inbox,
\* and the watcher has meanwhile handled the event of a later file.
C5_Witness ==
    /\ \E id \in preexisting :
         /\ cnt[id]["main"] = 1
         /\ \E n \in FileNames : inbox[n] = id
    /\ obsState = "running" /\ ret["obs"] # "none"

\* C6: a failed callback (False, or an exception) ends neither the scan nor
\* the watcher: the scan goes through its whole list, one result per listed
\* file, main returns 1 only before the scan or after all of it, and the
\* dispatch thread ends only when the observer is stopped.
C6_FailureContained ==
    /\ mainPc \in {"start", "live", "stopping", "joining", "done0"} =>
         ScanCompleted /\ Len(scanRes) = Len(files)
    /\ mainPc = "done1" => scanIdx = 0 \/ ScanCompleted
    /\ mainPc = "scanning" /\ pf["main"].pc = "idle" => Len(scanRes) = scanIdx - 1
    /\ obsPc = "exited" => obsState \in {"stopping", "stopped"}

\* The first listed file failed and the second was still processed; later
\* the callback raised in the watcher, whose dispatcher waits for more events.
C6_Witness ==
    /\ Len(scanRes) = 2 /\ scanRes[1] = "raise" /\ scanRes[2] = "True"
    /\ obsState = "running" /\ obsPc = "wait" /\ ret["obs"] = "raise"

\* C7: once main has ended after an interrupt that arrived after the startup
\* checks, it has returned 0.
C7_InterruptExitsZero ==
    (interrupts > 0 /\ "verify" \notin intPhase /\ ~Alive) => mainPc = "done0"

\* C8: at most one thread is inside move_file.
C8_OneOrganizer == Cardinality({t \in Threads : InMoveFile(t)}) <= 1

\* The watcher's thread is about to move a file after the scan moved one.
C8_Witness ==
    /\ pf["obs"].pc = "move"
    /\ \E i \in 1..Len(scanRes) : scanRes[i] = "True"

\* C9: a step in which move_file fails leaves inbox and output tree as they
\* were and ends process_file with False.
C9_FailedMoveChangesNothing ==
    [][\A t \in Threads : MoveFailed(t) => inbox' = inbox /\ tree' = tree]_vars

\* Characters that cannot occur in a file name on the host (POSIX).
HostInvalid == {"/", "NUL"}

\* C10: the result of _sanitize_path_component is not empty and holds no
\* path separator, no reserved character and no character the host forbids.
C10_SanitizedIsValid ==
    sanOut # <<"-">> =>
        /\ sanOut # <<>>
        /\ \A i \in 1..Len(sanOut) :
             sanOut[i] \notin Separators \cup InvalidChars \cup HostInvalid

\* The text of the pages that extract_text() returned text for, each followed
\* by a newline, in page order.
RECURSIVE PagesText(_)
PagesText(ps) ==
    IF ps = <<>> THEN <<>>
    ELSE (IF Head(ps) \in {Fails, <<>>} THEN <<>> ELSE Head(ps) \o <<"NL">>)
         \o PagesText(Tail(ps))

\* What was recognised on the images before the first failure.
RECURSIVE OcrAccumulated(_)
OcrAccumulated(imgs) ==
    IF imgs = <<>> THEN <<>>
    ELSE IF Head(imgs) = Fails THEN <<>>
    ELSE Head(imgs) \o OcrAccumulated(Tail(imgs))

\* Stage 1 of extract_content is over.
NativeDone == native # <<"-">>

\* C11: for a PDF, the OCR fallback is invoked exactly when the
\* whitespace-stripped length of the natively extracted text is below
\* min_content_length, and never before stage 1 is over.
C11_OcrIffBelowMinimum ==
    exKind = "pdf" =>
        /\ ~NativeDone => ~ocrInvoked
        /\ NativeDone =>
             (ocrInvoked <=> Len(StripWs(native)) < min_content_length)

\* A PDF whose native text is at least min_content_length long but shorter
\* once stripped: OCR was invoked and extract_content has returned.
C11_Witness ==
    /\ exKind = "pdf" /\ exPc = "returned" /\ ocrInvoked
    /\ min_content_length > 0
    /\ Len(native) >= min_content_length
    /\ StripWs(native) # <<>>

C13_EveryOtherPageContributes ==
    (exKind = "pdf" /\ ~openRaises /\ NativeDone) => native = PagesText(pages)

\* stop_monitoring and the dispatcher log a warning about giving up the
\* queued event of n: they log no such line (lines 177-180 log two info lines).
AbandonmentLogged(n) == FALSE

\* C14: when the watcher has reached Stopped, no file-creation event it
\* received is left undelivered, unless its abandonment was logged.
C14_NoSilentDrop ==
    mainPc = "done0" =>
        \A i \in 1..Len(queue) :
            queue[i] \in FileNames => AbandonmentLogged(queue[i])

C15_Joined ==
    /\ mainPc \in {"joining", "done0"} => obsState \in {"stopping", "stopped"}
    /\ mainPc = "done0" =>
         /\ intPhase = {"live"}
         /\ obsState = "stopped" /\ obsPc = "exited"
         /\ pf["obs"].pc = "idle"

C15_Draining ==
    /\ obsState \in {"stopping", "stopped"} =>
         /\ obsState' # "running"
         /\ queue' = queue
         /\ obsPc = "wait" => obsPc' \in {"wait", "exited"}
    /\ (obsState = "stopping" /\ obsPc = "callback" /\ obsPc' # "callback") =>
         /\ obsPc' = "wait" /\ pf'["obs"].pc = "idle"
         /\ ret'["obs"] \in {"True", "False", "raise"}

\* C15: after the interrupt in live watching the observer no longer runs: it
\* takes no further event into its queue and starts no further handler; a
\* callback in flight leaves only by process_file coming back; and run()
\* returns (main exits with 0) only with the observer stopped, its dispatch
\* thread ended and no callback in progress.
C15_StopThenJoin == []C15_Joined /\ [][C15_Draining]_vars

\* The observer was told to stop while its callback was moving a file, and
\* main waits in join().
C15_Witness ==
    /\ mainPc = "joining" /\ obsState = "stopping"
    /\ obsPc = "callback" /\ pf["obs"].pc = "move"

\* C16: whenever the running observer holds a creation event in its queue,
\* the event can be taken up at once (its handler can start its stabilization
\* wait), whatever the handling of an earlier file is doing.
C16_NextEventNotBlocked ==
    (Alive /\ obsState = "running" /\ queue # <<>>) => ENABLED Dispatch

\* C17: when the classifier's connectivity check failed at start-up, main has
\* returned 1 and nothing was processed: the inbox was never listed, the
\* observer never created or started, and process_file never called, neither
\* in the past nor now.
C17_NoConnectionNoProcessing ==
    prereq = "connection" =>
        /\ mainPc = "done1"
        /\ scanIdx = 0 /\ files = <<>> /\ processed = 0
        /\ obsState = "none" /\ obsPc = "none" /\ queue = <<>>
        /\ \A t \in Threads : pf[t].pc = "idle" /\ ret[t] = "none"
        /\ \A id \in Ids : \A t \in Threads : cnt[id][t] = 0

\* The connectivity check failed with files waiting in the inbox.
C17_Witness ==
    /\ prereq = "connection" /\ mainPc = "done1"
    /\ preexisting # {} /\ \A n \in FileNames : inbox[n] # 0 => inbox[n] \in preexisting

ResolveName(k) == <<DirA, TargetName(<<"a">>, k, Pdf)>>

C18_Capped ==
    /\ counter <= SafetyLimit + 1
    /\ rPc \in {"while", "returned"} =>
         /\ target_path = ResolveName(counter - 1)
         /\ \A j \in 0..(counter - 2) : ResolveName(j) \in DOMAIN tree
         /\ warned <=> counter > SafetyLimit
    /\ rPc = "returned" =>
         /\ target_path = resolve_target_path(tree, DirA, ResolveFilename, Pdf)
         /\ ~warned => target_path \notin DOMAIN tree
    /\ rPc = "moved" =>
         /\ tree[target_path] = Moved
         /\ overwritten => warned /\ target_path = ResolveName(SafetyLimit)

Screened(n) ==
    \/ StartsWith(n, <<".">>)
    \/ EndsWith(n, Icloud)
    \/ Lower(Suffix(n)) \notin SUPPORTED_EXTENSIONS
    \/ ~IsFile(n)

\* C19: the validation of a hidden, placeholder, unsupported or non-existing
\* file ends process_file at once, with False and with inbox, output tree and
\* category directories unchanged, so neither extraction nor classification
\* nor the move is attempted for it.
C19_ScreenedNeverEnters ==
    [][\A t \in Threads :
         (pf[t].pc = "validate" /\ pf'[t].pc # "validate" /\ Screened(pf[t].path)) =>
            /\ pf'[t].pc = "idle" /\ ret'[t] = "False"
            /\ inbox' = inbox /\ tree' = tree /\ dirs' = dirs]_vars

\* C20: the result of _sanitize_path_component neither begins nor ends with
\* a dot or with a whitespace character (space or tab).
C20_NoDotOrWhitespaceAtEnds ==
    sanOut # <<"-">> =>
        /\ sanOut # <<>>
        /\ sanOut[1] \notin {".", " ", "TAB"}
        /\ sanOut[Len(sanOut)] \notin {".", " ", "TAB"}

\* The path root/sanitize(category)/sanitize(filename) + the extension of the
\* file thread t is placing, as the source has it.
CandidatePath(t) ==
    <<sanitize_path_component(pf[t].meta.category),
      sanitize_path_component(pf[t].meta.filename) \o Suffix(pf[t].path)>>

\* C21: the step of move_file that prepares the directory leaves the category
\* directory existing and every other directory and file as they were; and a
\* move that succeeds while the candidate path is free puts the whole file at
\* exactly the candidate path (sanitized category, sanitized filename, the
\* source's extension as given, no suffix), in an existing directory, and
\* takes it out of the inbox.
C21_PlacedAtCandidate ==
    [][\A t \in Threads :
         /\ (pf[t].pc = "move_file" /\ pf'[t].pc = "move") =>
               /\ dirs' = dirs \cup {sanitize_path_component(pf[t].meta.category)}
               /\ tree' = tree
         /\ (pf[t].pc = "move" /\ pf'[t].pc = "idle" /\ ret'[t] = "True"
               /\ CandidatePath(t) \notin DOMAIN tree) =>
               /\ pf[t].target = CandidatePath(t)
               /\ CandidatePath(t)[1] \in dirs
               /\ inbox'[pf[t].path] = 0
               /\ DOMAIN tree' = DOMAIN tree \cup {CandidatePath(t)}
               /\ tree'[CandidatePath(t)] = [id |-> inbox[pf[t].path], whole |-> TRUE]
               /\ \A p \in DOMAIN tree : tree'[p] = tree[p]]_vars

\* u.PDF was moved to Unnamed/a.PDF, into a category directory that did not
\* exist before, beside the directory A that did.
C21_Witness ==
    /\ inbox[NameU] = 0
    /\ <<Unnamed, <<"a", ".", "P", "D", "F">>>> \in DOMAIN tree
    /\ tree[<<Unnamed, <<"a", ".", "P", "D", "F">>>>] = [id |-> 1, whole |-> TRUE]
    /\ dirs = {DirA, Unnamed}
    /\ ret["main"] = "True"

\* C22: extract_content never returns for an image without having invoked
\* the OCR stage, whatever min_content_length is.
C22_ImageAlwaysOcr ==
    (exKind = "image" /\ exPc = "returned") => ocrInvoked

\* The text image_to_string returned for the images, in their order, an
\* image it raised on contributing nothing.
RECURSIVE OcrTextOfAll(_)
OcrTextOfAll(imgs) ==
    IF imgs = <<>> THEN <<>>
    ELSE (IF Head(imgs) = Fails THEN <<>> ELSE Head(imgs)) \o OcrTextOfAll(Tail(imgs))

\* C23 as stated: whenever the OCR fallback ran, the result is the native
\* text followed by the OCR text of every image in order; else it is the
\* native text.
C23_NativeThenAllOcr ==
    exPc = "returned" =>
        text = native \o (IF ocrInvoked THEN OcrTextOfAll(images) ELSE <<>>)

\* C23: the native text is never replaced: from the end of stage 1 on the
\* text begins with it.  When the fallback ran, the result is the native text
\* followed by the OCR text of the images in their order, up to the first
\* image OCR failed on (of every image when OCR fails on none); when it did
\* not run, the result is the native text.
C23_NativeThenOcrUntilFailure ==
    /\ NativeDone =>
         Len(text) >= Len(native) /\ SubSeq(text, 1, Len(native)) = native
    /\ exPc = "returned" =>
         /\ ocrInvoked => text = native \o OcrAccumulated(images)
         /\ (ocrInvoked /\ \A i \in 1..Len(images) : images[i] # Fails) =>
                text = native \o OcrTextOfAll(images)
         /\ ~ocrInvoked => text = native

\* A PDF with native text too short, and two images recognised as "x" and
\* "y": the result is the native text, then "x", then "y".
C23_Witness ==
    /\ exPc = "returned" /\ ocrInvoked
    /\ native # <<>>
    /\ images = << <<"x">>, <<"y">> >>
    /\ text = native \o <<"x", "y">>

\* The callback invocations of the scan that returned True.
Succeeded == {i \in 1..Len(scanRes) : scanRes[i] = "True"}

\* C24: the processed count of the catch-up scan counts only the files whose
\* callback succeeded: a file whose callback returned False is not in it.
C24_FailedNotCounted == processed = Cardinality(Succeeded)

\* The creation of the file at inbox path n has reached, or is on its way to,
\* the process callback: the file was passed to it, or its event is in the
\* observer's queue or in the handler's hands.
PassedOrPending(n) ==
    \/ \E t \in Threads : cnt[inbox[n]][t] > 0
    \/ \E t \in Threads : pf[t].pc # "idle" /\ pf[t].path = n
    \/ \E i \in 1..Len(queue) : queue[i] = n
    \/ obsPc \in {"sleep", "callback"} /\ obsPath = n
    \/ mainPc = "scanning" /\ \E i \in scanIdx..Len(files) : files[i] = n

\* C25: while the process is scanning or watching, every supported regular
\* file in the inbox has been passed to the callback or is on its way to it
\* (listed by the scan and not yet reached, queued as an event, or being
\* handled), so that no arrival is lost.
C25_NoArrivalLost ==
    mainPc \in {"scanning", "start", "live"} =>
        \A n \in FileNames :
            (IsFile(n) /\ NameAccepted(n)) => PassedOrPending(n)

C26_Total ==
    \A t \in Threads :
        (pf[t].pc \in {"extract", "classify", "move_file", "move"}
            /\ pf'[t].pc \notin {"extract", "classify", "move_file", "move"}) =>
           /\ pf'[t].pc = "idle"
           /\ ret'[t] \in {"True", "False"}
           /\ ret'[t] = "True" => pf[t].pc = "move"
           /\ t = "obs" => obsPc' = "wait"
           /\ t = "main" => mainPc' = mainPc /\ scanIdx' = scanIdx + 1

\* C26: once a file has passed validation, process_file ends only by
\* returning True (from the move) or False: no step of extraction,
\* classification or placement ends it with an exception, and its caller (the
\* scan, the watcher's dispatch thread) goes on.
C26_ProcessFileTotal == [][C26_Total]_vars

\* A file was taken away after it passed validation: the watcher's thread
\* is about to extract from a path that no longer exists.
C26_Witness ==
    /\ pf["obs"].pc = "extract" /\ ~PathExists(pf["obs"].path)
    /\ pf["obs"].fid \in removed

====
